---- MODULE Spec2Model ----
(***************************************************************************)
(* A model of statistics_and_trends.py: the water-consumption script that  *)
(* loads data.csv, cleans it (preprocessing), renders three charts,        *)
(* computes four descriptive moments of one column and prints a summary.   *)
(*                                                                         *)
(* A table (pandas DataFrame) is a record                                  *)
(*   [index   : the name of the index ("RangeIndex" or a column name),     *)
(*    columns : the sequence of column names, in order,                    *)
(*    rows    : a sequence of [label : cell, cells : [column -> cell]]].    *)
(* A cell is <<>> for a null (NaN) and <<v>> for the value v.              *)
(*                                                                         *)
(* Every function of the script is an operator that returns a record of    *)
(* its effects: arg (the state of the argument object after the call),     *)
(* ret (the value returned), out (the lines printed), file (the image      *)
(* saved) and exc (the exception raised, "none" when it returns).          *)
(***************************************************************************)
EXTENDS Integers, Sequences, FiniteSets, TLC

VARIABLES
    csv,          \* the file data.csv: Missing, or its header and rows
    emptyRaises,  \* whether the installed seaborn raises in barplot on empty data
    pc,           \* the position of main
    df,           \* the table held by the caller (main's local df)
    orig,         \* the table as it was first handed to the caller
    returns,      \* the values returned by the calls made so far
    files,        \* image files on disk: file name -> number of times saved
    moments,      \* main's local moments
    stdout,       \* the lines printed so far
    trace,        \* the calls main has made: [fn: function, arg: what it was given]
    exc           \* the exception that left main, "none" while there is none

vars == <<csv, emptyRaises, pc, df, orig, returns, files, moments, stdout, trace, exc>>

-----------------------------------------------------------------------------
(* Bounds of the model *)

MaxRows == 3
MaxMainRows == 2
MaxCalls == 2
MaxQuarter == 6

-----------------------------------------------------------------------------
(* Column and file names *)

ColYear == "Year"
ColPerCapita == "Per Capita Water Use (L/Day)"
ColScarcity == "Water Scarcity Level"
ColTotal == "Total Water Consumption (Billion m3)"
ColRain == "Rainfall Impact (mm)"
ColGround == "Groundwater Depletion Rate (%)"

RelationalFile == "relational_plot.png"
CategoricalFile == "categorical_plot.png"
StatisticalFile == "statistical_plot.png"
FileNames == {RelationalFile, CategoricalFile, StatisticalFile}

Null == <<>>
Missing == [columns |-> <<>>, rows |-> <<>>, exists |-> FALSE]
Unbound == [index |-> "Unbound", columns |-> <<>>, rows |-> <<>>]

Range(s) == {s[i] : i \in DOMAIN s}

\* The rows of s at the positions in keep, in their order.
KeepRows(s, keep) ==
    LET F[i \in 0..Len(s)] ==
            IF i = 0 THEN <<>>
            ELSE IF i \in keep THEN Append(F[i - 1], s[i]) ELSE F[i - 1]
    IN F[Len(s)]

-----------------------------------------------------------------------------
(* pandas operations used by the script *)

\* pd.read_csv: the rows of the file under a fresh RangeIndex 0..n-1.
read_csv(file) ==
    IF ~file.exists
    THEN [ret |-> Unbound, exc |-> "FileNotFoundError"]
    ELSE [ret |-> [index |-> "RangeIndex",
                   columns |-> file.columns,
                   rows |-> [i \in DOMAIN file.rows |->
                                [label |-> <<i - 1>>, cells |-> file.rows[i]]]],
          exc |-> "none"]

\* DataFrame.set_index(name): the column leaves the columns and labels the rows.
set_index(t, name) ==
    LET cols == SelectSeq(t.columns, LAMBDA c : c # name)
    IN [index |-> name,
        columns |-> cols,
        rows |-> [i \in DOMAIN t.rows |->
                    [label |-> t.rows[i].cells[name],
                     cells |-> [c \in Range(cols) |-> t.rows[i].cells[c]]]]]

\* DataFrame.empty: no rows or no columns.
IsEmpty(t) == Len(t.rows) = 0 \/ Len(t.columns) = 0

\* DataFrame.drop_duplicates(): keep="first", compared on the columns (never on
\* the index), nulls equal to nulls; an empty frame is returned as it is.
drop_duplicates(t) ==
    IF IsEmpty(t) THEN t
    ELSE [t EXCEPT !.rows =
            KeepRows(t.rows, {i \in DOMAIN t.rows :
                \A j \in 1..(i - 1) : t.rows[j].cells # t.rows[i].cells})]

\* dropna(how="all"): a row goes only when every column is null.
dropna_all(t) ==
    [t EXCEPT !.rows =
        KeepRows(t.rows, {i \in DOMAIN t.rows :
            \E c \in Range(t.columns) : t.rows[i].cells[c] # Null})]

\* DataFrame.dropna(): how="any" over the columns (never the index).
dropna(t) ==
    [t EXCEPT !.rows =
        KeepRows(t.rows, {i \in DOMAIN t.rows :
            \A c \in Range(t.columns) : t.rows[i].cells[c] # Null})]

-----------------------------------------------------------------------------
(* preprocessing, lines 143-168 *)

\* Duplicates dropped before Year is moved to the index: Year takes part in
\* the comparison.
preprocessing_dedup_first(t) ==
    LET deduped == drop_duplicates(t)
        indexed == IF ColYear \in Range(deduped.columns)
                   THEN set_index(deduped, ColYear) ELSE deduped
        cleaned == dropna(indexed)
    IN  IF Len(cleaned.columns) = 0
        THEN [arg |-> t, ret |-> Unbound,
              out |-> << <<"Dataset Head">> >>,
              exc |-> "ValueError"]
        ELSE [arg |-> t, ret |-> cleaned,
              out |-> << <<"Dataset Head">>, <<"Dataset Description">>,
                         <<"Correlation Matrix">> >>,
              exc |-> "none"]

\* The index set by position, df.set_index(df.columns[0]), whatever its name.
preprocessing_positional(t) ==
    LET indexed == IF Len(t.columns) > 0 THEN set_index(t, t.columns[1]) ELSE t
        deduped == drop_duplicates(indexed)
        cleaned == dropna(deduped)
    IN  IF Len(cleaned.columns) = 0
        THEN [arg |-> t, ret |-> Unbound,
              out |-> << <<"Dataset Head">> >>,
              exc |-> "ValueError"]
        ELSE [arg |-> t, ret |-> cleaned,
              out |-> << <<"Dataset Head">>, <<"Dataset Description">>,
                         <<"Correlation Matrix">> >>,
              exc |-> "none"]

preprocessing(t) ==
    LET indexed == IF ColYear \in Range(t.columns) THEN set_index(t, ColYear) ELSE t
        deduped == drop_duplicates(indexed)
        cleaned == dropna(deduped)
    IN  IF Len(cleaned.columns) = 0
        THEN \* df.describe() raises on a frame without columns, after the head is printed
             [arg |-> t, ret |-> Unbound,
              out |-> << <<"Dataset Head">> >>,
              exc |-> "ValueError"]
        ELSE [arg |-> t, ret |-> cleaned,
              out |-> << <<"Dataset Head">>, <<"Dataset Description">>,
                         <<"Correlation Matrix">> >>,
              exc |-> "none"]

-----------------------------------------------------------------------------
(* Numbers returned by the statistics libraries.  A moment is NaN, a        *)
(* rational num/den (den > 0), or a signed square root sgn*sqrt(num/den),   *)
(* so that the comparisons writing makes are decided exactly.               *)

NaN == [k |-> "nan"]
Rat(n, d) == [k |-> "rat", num |-> n, den |-> d]
Root(s, n, d) == [k |-> "root", sgn |-> s, num |-> n, den |-> d]

Sign(x) == IF x > 0 THEN 1 ELSE IF x < 0 THEN -1 ELSE 0

\* x > p/q, for q > 0; every comparison with NaN is false.
Greater(x, p, q) ==
    CASE x.k = "nan" -> FALSE
      [] x.k = "rat" -> x.num * q > p * x.den
      [] x.k = "root" ->
            IF p >= 0
            THEN x.sgn = 1 /\ x.num * q * q > p * p * x.den
            ELSE x.sgn >= 0 \/ x.num * q * q < p * p * x.den

\* x < p/q, for q > 0; every comparison with NaN is false.
Less(x, p, q) ==
    CASE x.k = "nan" -> FALSE
      [] x.k = "rat" -> x.num * q < p * x.den
      [] x.k = "root" ->
            IF p <= 0
            THEN x.sgn = -1 /\ x.num * q * q > p * p * x.den
            ELSE x.sgn <= 0 \/ x.num * q * q < p * p * x.den

SumSeq(s) ==
    LET F[i \in 0..Len(s)] == IF i = 0 THEN 0 ELSE F[i - 1] + s[i]
    IN F[Len(s)]

-----------------------------------------------------------------------------
(* statistical_analysis, lines 116-140 *)

\* The nulls of the column dropped in place, df.dropna(subset=[col],
\* inplace=True), before the moments are taken.
statistical_analysis_inplace(t, col) ==
    IF col \notin Range(t.columns)
    THEN [arg |-> t, ret |-> <<>>, exc |-> "KeyError"]
    ELSE
    LET present == KeepRows(t.rows, {i \in DOMAIN t.rows : t.rows[i].cells[col] # Null})
        data == [i \in DOMAIN present |-> present[i].cells[col][1]]
        n == Len(data)
        S == SumSeq(data)
        dev == [i \in DOMAIN data |-> n * data[i] - S]
        D2 == SumSeq([i \in DOMAIN dev |-> dev[i] * dev[i]])
        D3 == SumSeq([i \in DOMAIN dev |-> dev[i] * dev[i] * dev[i]])
        D4 == SumSeq([i \in DOMAIN dev |-> dev[i] * dev[i] * dev[i] * dev[i]])
        mean == IF n = 0 THEN NaN ELSE Rat(S, n)
        stddev == IF n <= 1 THEN NaN ELSE Root(Sign(D2), D2, n * n * (n - 1))
        skew == IF n = 0 \/ D2 = 0 THEN NaN
                ELSE Root(Sign(D3), n * D3 * D3, D2 * D2 * D2)
        excess_kurtosis == IF n = 0 \/ D2 = 0 THEN NaN
                           ELSE Rat(n * D4 - 3 * D2 * D2, D2 * D2)
    IN [arg |-> [t EXCEPT !.rows = present],
        ret |-> <<mean, stddev, skew, excess_kurtosis>>, exc |-> "none"]

\* With n values x_i of sum S and dev_i = n*x_i - S (n times the deviation
\* from the mean), and Dk the sum of dev_i^k:
\*   np.mean               = S / n
\*   np.std(ddof=1)        = sqrt(D2 / (n*n*(n-1)))
\*   ss.skew     (biased)  = m3 / m2^1.5   = sign(D3) * sqrt(n*D3^2 / D2^3)
\*   ss.kurtosis (Fisher)  = m4 / m2^2 - 3 = (n*D4 - 3*D2^2) / D2^2
\* Empty data gives NaN throughout, one value a NaN deviation, and constant
\* data a NaN skewness and kurtosis (0/0, as scipy reports it since 1.9).
statistical_analysis(t, col) ==
    IF col \notin Range(t.columns)
    THEN [arg |-> t, ret |-> <<>>, exc |-> "KeyError"]
    ELSE
    LET present == KeepRows(t.rows, {i \in DOMAIN t.rows : t.rows[i].cells[col] # Null})
        data == [i \in DOMAIN present |-> present[i].cells[col][1]]
        n == Len(data)
        S == SumSeq(data)
        dev == [i \in DOMAIN data |-> n * data[i] - S]
        D2 == SumSeq([i \in DOMAIN dev |-> dev[i] * dev[i]])
        D3 == SumSeq([i \in DOMAIN dev |-> dev[i] * dev[i] * dev[i]])
        D4 == SumSeq([i \in DOMAIN dev |-> dev[i] * dev[i] * dev[i] * dev[i]])
        mean == IF n = 0 THEN NaN ELSE Rat(S, n)
        stddev == IF n <= 1 THEN NaN ELSE Root(Sign(D2), D2, n * n * (n - 1))
        skew == IF n = 0 \/ D2 = 0 THEN NaN
                ELSE Root(Sign(D3), n * D3 * D3, D2 * D2 * D2)
        excess_kurtosis == IF n = 0 \/ D2 = 0 THEN NaN
                           ELSE Rat(n * D4 - 3 * D2 * D2, D2 * D2)
    IN [arg |-> t, ret |-> <<mean, stddev, skew, excess_kurtosis>>, exc |-> "none"]

-----------------------------------------------------------------------------
(* The three charts, lines 34-113.  A chart reads its columns, which raises *)
(* when one is missing, and then saves its image; it assigns nothing to the *)
(* table it is given.                                                       *)

plot_relational_plot(t) ==
    IF {ColRain, ColGround, ColScarcity} \subseteq Range(t.columns)
    THEN [arg |-> t, file |-> <<RelationalFile>>, exc |-> "none"]
    ELSE [arg |-> t, file |-> <<>>, exc |-> "ValueError"]

\* The table sorted in place by level before it is grouped,
\* df.sort_values(level, inplace=True).
plot_categorical_plot_sorts(t) ==
    LET grouped == IF ColScarcity \in Range(t.columns)
                   THEN {t.rows[i].cells[ColScarcity] : i \in DOMAIN t.rows} \ {Null}
                   ELSE {}
        Level(v) == KeepRows(t.rows, {i \in DOMAIN t.rows : t.rows[i].cells[ColScarcity] = v})
        sorted == [t EXCEPT !.rows = Level(<<"High">>) \o Level(<<"Low">>) \o Level(Null)]
    IN  IF ~({ColScarcity, ColTotal} \subseteq Range(t.columns))
        THEN [arg |-> t, file |-> <<>>, exc |-> "KeyError"]
        ELSE IF grouped = {} /\ emptyRaises
        THEN [arg |-> sorted, file |-> <<>>, exc |-> "ValueError"]
        ELSE [arg |-> sorted, file |-> <<CategoricalFile>>, exc |-> "none"]

plot_categorical_plot(t) ==
    LET \* df.groupby(level)[total].mean().reset_index(): one row per level
        grouped == IF ColScarcity \in Range(t.columns)
                   THEN {t.rows[i].cells[ColScarcity] : i \in DOMAIN t.rows} \ {Null}
                   ELSE {}
    IN  IF ~({ColScarcity, ColTotal} \subseteq Range(t.columns))
        THEN [arg |-> t, file |-> <<>>, exc |-> "KeyError"]
        ELSE IF grouped = {} /\ emptyRaises
        THEN [arg |-> t, file |-> <<>>, exc |-> "ValueError"]
        ELSE [arg |-> t, file |-> <<CategoricalFile>>, exc |-> "none"]

plot_statistical_plot(t) ==
    IF ColPerCapita \in Range(t.columns)
    THEN [arg |-> t, file |-> <<StatisticalFile>>, exc |-> "none"]
    ELSE [arg |-> t, file |-> <<>>, exc |-> "KeyError"]

-----------------------------------------------------------------------------
(* writing, lines 171-200 *)

\* The kurtosis phrase chosen from m[3], the skewness (an index slip).
writing_swapped(m, col) ==
    LET skew_text == IF Greater(m[3], 1, 2) THEN "right-skewed"
                     ELSE IF Less(m[3], -1, 2) THEN "left-skewed"
                     ELSE "approximately symmetric"
        kurt_text == IF Greater(m[3], 1, 1) THEN "leptokurtic (heavy-tailed)"
                     ELSE IF Less(m[3], -1, 1) THEN "platykurtic (light-tailed)"
                     ELSE "mesokurtic (normal-like)"
    IN [out |-> << <<"For the attribute", col>>,
                   <<"Mean, Standard Deviation, Skewness, Excess Kurtosis", m>>,
                   <<"The data is", skew_text, kurt_text>> >>]

\* The thresholds taken inclusively (>= 0.5, <= -0.5, >= 1, <= -1).
writing_inclusive(m, col) ==
    LET skew_text == IF m[3].k # "nan" /\ ~Less(m[3], 1, 2) THEN "right-skewed"
                     ELSE IF m[3].k # "nan" /\ ~Greater(m[3], -1, 2) THEN "left-skewed"
                     ELSE "approximately symmetric"
        kurt_text == IF m[4].k # "nan" /\ ~Less(m[4], 1, 1)
                     THEN "leptokurtic (heavy-tailed)"
                     ELSE IF m[4].k # "nan" /\ ~Greater(m[4], -1, 1)
                     THEN "platykurtic (light-tailed)"
                     ELSE "mesokurtic (normal-like)"
    IN [out |-> << <<"For the attribute", col>>,
                   <<"Mean, Standard Deviation, Skewness, Excess Kurtosis", m>>,
                   <<"The data is", skew_text, kurt_text>> >>]

writing(m, col) ==
    LET skew_text == IF Greater(m[3], 1, 2) THEN "right-skewed"
                     ELSE IF Less(m[3], -1, 2) THEN "left-skewed"
                     ELSE "approximately symmetric"
        kurt_text == IF Greater(m[4], 1, 1) THEN "leptokurtic (heavy-tailed)"
                     ELSE IF Less(m[4], -1, 1) THEN "platykurtic (light-tailed)"
                     ELSE "mesokurtic (normal-like)"
    IN [out |-> << <<"For the attribute", col>>,
                   <<"Mean, Standard Deviation, Skewness, Excess Kurtosis", m>>,
                   <<"The data is", skew_text, kurt_text>> >>]

-----------------------------------------------------------------------------
(* Input tables *)

CellsOf(c) ==
    CASE c = ColYear -> {Null, <<1>>, <<2>>}
      [] c = ColPerCapita -> {Null, <<1>>, <<2>>}
      [] c = ColScarcity -> {<<"Low">>, <<"High">>}
      [] OTHER -> {<<1>>}

FullSchema == <<ColYear, ColPerCapita, ColScarcity, ColTotal, ColRain, ColGround>>
Without(schema, name) == SelectSeq(schema, LAMBDA c : c # name)

RECURSIVE RowsOf(_)
RowsOf(schema) ==
    IF schema = <<>> THEN {[c \in {} |-> Null]}
    ELSE {[c \in Range(schema) |-> IF c = Head(schema) THEN v ELSE r[c]] :
            v \in CellsOf(Head(schema)), r \in RowsOf(Tail(schema))}

\* The file data.csv with the header schema and the rows rs.
CsvFile(schema, rs) == [columns |-> schema, rows |-> rs, exists |-> TRUE]

PreSchemas == {FullSchema, Without(FullSchema, ColYear), <<ColYear>>}

-----------------------------------------------------------------------------
(* SpecPre: preprocessing applied to a loaded table, then to its own output *)

InitPre ==
    /\ \E s \in PreSchemas, k \in 0..MaxRows :
         \E rs \in [1..k -> RowsOf(s)] : csv = CsvFile(s, rs)
    /\ emptyRaises = FALSE
    /\ pc = "harness"
    /\ df = read_csv(csv).ret
    /\ orig = df
    /\ returns = <<>>
    /\ files = [f \in FileNames |-> 0]
    /\ moments = <<>>
    /\ stdout = <<>>
    /\ trace = <<>>
    /\ exc = "none"

\* The first pass cleans the caller's table; pass k+1 cleans what pass k returned.
PassPreprocessing ==
    /\ pc = "harness"
    /\ exc = "none"
    /\ Len(returns) < MaxCalls
    /\ LET given == IF returns = <<>> THEN df ELSE returns[Len(returns)]
           r == preprocessing(given)
       IN  /\ stdout' = stdout \o r.out
           /\ exc' = r.exc
           /\ IF returns = <<>>
              THEN /\ df' = r.arg
                   /\ returns' = IF r.exc = "none" THEN <<r.ret>> ELSE returns
              ELSE /\ df' = df
                   /\ returns' =
                        IF r.exc = "none"
                        THEN Append([returns EXCEPT ![Len(returns)] = r.arg], r.ret)
                        ELSE [returns EXCEPT ![Len(returns)] = r.arg]
    /\ UNCHANGED <<csv, emptyRaises, pc, orig, files, moments, trace>>

NextPre == PassPreprocessing

SpecPre == InitPre /\ [][NextPre]_vars

-----------------------------------------------------------------------------
(* main, lines 203-219: one action per statement.  An exception raised by a *)
(* step leaves main at once (pc = "raised"): main has no try block.         *)

col == ColPerCapita

Saved(r) == [f \in FileNames |-> IF r.file = <<f>> THEN files[f] + 1 ELSE files[f]]

Called(fn, given) == Append(trace, [fn |-> fn, arg |-> given])

MainSchemas ==
    {FullSchema, Without(FullSchema, ColYear), Without(FullSchema, ColPerCapita),
     Without(FullSchema, ColScarcity), Without(FullSchema, ColTotal), <<ColYear>>}

InitMain ==
    /\ \/ csv = Missing
       \/ \E s \in MainSchemas, k \in 0..MaxMainRows :
            \E rs \in [1..k -> RowsOf(s)] : csv = CsvFile(s, rs)
    /\ emptyRaises \in BOOLEAN
    /\ pc = "read_csv"
    /\ df = Unbound
    /\ orig = Unbound
    /\ returns = <<>>
    /\ files = [f \in FileNames |-> 0]
    /\ moments = <<>>
    /\ stdout = <<>>
    /\ trace = <<>>
    /\ exc = "none"

\* df = pd.read_csv("data.csv")
Load ==
    /\ pc = "read_csv"
    /\ LET r == read_csv(csv)
       IN  /\ df' = r.ret
           /\ orig' = r.ret
           /\ exc' = r.exc
           /\ pc' = IF r.exc = "none" THEN "preprocessing" ELSE "raised"
    /\ UNCHANGED <<csv, emptyRaises, returns, files, moments, stdout, trace>>

\* preprocessing(df) called with its result discarded: df stays the loaded table.
Preprocess_discard ==
    /\ pc = "preprocessing"
    /\ LET r == preprocessing(df)
       IN  /\ trace' = Called("preprocessing", df)
           /\ stdout' = stdout \o r.out
           /\ orig' = r.arg
           /\ df' = r.arg
           /\ exc' = r.exc
           /\ pc' = IF r.exc = "none" THEN "plot_relational_plot" ELSE "raised"
    /\ UNCHANGED <<csv, emptyRaises, returns, files, moments>>

\* df = preprocessing(df)
Preprocess ==
    /\ pc = "preprocessing"
    /\ LET r == preprocessing(df)
       IN  /\ trace' = Called("preprocessing", df)
           /\ stdout' = stdout \o r.out
           /\ orig' = r.arg
           /\ df' = IF r.exc = "none" THEN r.ret ELSE r.arg
           /\ exc' = r.exc
           /\ pc' = IF r.exc = "none" THEN "plot_relational_plot" ELSE "raised"
    /\ UNCHANGED <<csv, emptyRaises, returns, files, moments>>

\* A chart call of main: r is the chart's effect on the table df.
ChartStep(fn, r, next) ==
    /\ pc = fn
    /\ trace' = Called(fn, df)
    /\ df' = r.arg
    /\ files' = Saved(r)
    /\ exc' = r.exc
    /\ pc' = IF r.exc = "none" THEN next ELSE "raised"
    /\ UNCHANGED <<csv, emptyRaises, orig, returns, moments, stdout>>

\* plot_relational_plot(df)
PlotRelational ==
    ChartStep("plot_relational_plot", plot_relational_plot(df), "plot_statistical_plot")

\* plot_statistical_plot(df)
PlotStatistical ==
    ChartStep("plot_statistical_plot", plot_statistical_plot(df), "plot_categorical_plot")

\* plot_categorical_plot(df) inside try/except: main goes on after a failure.
PlotCategorical_swallow ==
    LET r == plot_categorical_plot(df)
    IN  /\ pc = "plot_categorical_plot"
        /\ trace' = Called("plot_categorical_plot", df)
        /\ df' = r.arg
        /\ files' = Saved(r)
        /\ exc' = "none"
        /\ pc' = "statistical_analysis"
        /\ UNCHANGED <<csv, emptyRaises, orig, returns, moments, stdout>>

\* plot_categorical_plot(df)
PlotCategorical ==
    ChartStep("plot_categorical_plot", plot_categorical_plot(df), "statistical_analysis")

\* moments = statistical_analysis(df, col)
Analyse ==
    /\ pc = "statistical_analysis"
    /\ LET r == statistical_analysis(df, col)
       IN  /\ trace' = Called("statistical_analysis", df)
           /\ df' = r.arg
           /\ moments' = r.ret
           /\ exc' = r.exc
           /\ pc' = IF r.exc = "none" THEN "writing" ELSE "raised"
    /\ UNCHANGED <<csv, emptyRaises, orig, returns, files, stdout>>

\* writing(moments, col)
Write ==
    /\ pc = "writing"
    /\ trace' = Called("writing", moments)
    /\ stdout' = stdout \o writing(moments, col).out
    /\ pc' = "done"
    /\ UNCHANGED <<csv, emptyRaises, df, orig, returns, files, moments, exc>>

NextMain ==
    \/ Load
    \/ Preprocess
    \/ PlotRelational
    \/ PlotStatistical
    \/ PlotCategorical
    \/ Analyse
    \/ Write

SpecMain == InitMain /\ [][NextMain]_vars

-----------------------------------------------------------------------------
(* SpecCalls: a caller holding one table calls the functions that read it,  *)
(* in any order: each chart at most once, statistical_analysis at most      *)
(* MaxCalls times, preprocessing once with its result discarded.            *)

InitCalls ==
    /\ csv = Missing
    /\ emptyRaises \in BOOLEAN
    /\ pc = "harness"
    /\ \E s \in {FullSchema, Without(FullSchema, ColYear)}, k \in 0..MaxMainRows :
         \E rs \in [1..k -> RowsOf(s)], clean \in BOOLEAN :
            \* a loaded table is taken without the Year column, which no
            \* function called here reads; a cleaned one with and without
            /\ clean \/ ColYear \notin Range(s)
            /\ LET loaded == read_csv(CsvFile(s, rs)).ret
               IN df = IF clean THEN preprocessing(loaded).ret ELSE loaded
    /\ orig = df
    /\ returns = <<>>
    /\ files = [f \in FileNames |-> 0]
    /\ moments = <<>>
    /\ stdout = <<>>
    /\ trace = <<>>
    /\ exc = "none"

\* A chart call of the caller, who goes on when the chart raises.
ChartCall(name, r) ==
    /\ pc = "harness"
    /\ files[name] = 0
    /\ df' = r.arg
    /\ files' = Saved(r)
    /\ UNCHANGED <<csv, emptyRaises, pc, orig, returns, moments, stdout, trace, exc>>

CallPlotRelational == ChartCall(RelationalFile, plot_relational_plot(df))

CallPlotStatistical == ChartCall(StatisticalFile, plot_statistical_plot(df))

CallPlotCategorical == ChartCall(CategoricalFile, plot_categorical_plot(df))

CallStatisticalAnalysis ==
    /\ pc = "harness"
    /\ Len(returns) < MaxCalls
    /\ LET r == statistical_analysis(df, col)
       IN  /\ df' = r.arg
           /\ returns' = Append(returns, r.ret)
    /\ UNCHANGED <<csv, emptyRaises, pc, orig, files, moments, stdout, trace, exc>>

CallPreprocessing ==
    /\ pc = "harness"
    /\ stdout = <<>>
    /\ LET r == preprocessing(df)
       IN  /\ df' = r.arg
           /\ stdout' = r.out
    /\ UNCHANGED <<csv, emptyRaises, pc, orig, returns, files, moments, trace, exc>>

NextCalls ==
    \/ CallPlotRelational
    \/ CallPlotStatistical
    \/ CallPlotCategorical
    \/ CallStatisticalAnalysis
    \/ CallPreprocessing

SpecCalls == InitCalls /\ [][NextCalls]_vars

-----------------------------------------------------------------------------
(* SpecWriting: writing called on a tuple of moments *)

Quarters == {Rat(q, 4) : q \in (0 - MaxQuarter)..MaxQuarter}
Roots == {Root(Sign(s * n), n, 4) : s \in {-1, 1}, n \in 0..2}

InitWriting ==
    /\ csv = Missing
    /\ emptyRaises = FALSE
    /\ pc = "harness"
    /\ df = Unbound
    /\ orig = Unbound
    /\ returns = <<>>
    /\ files = [f \in FileNames |-> 0]
    /\ \E mean \in {NaN, Rat(3, 2)}, sd \in {NaN, Root(1, 1, 2)},
          skew \in {NaN} \cup Quarters \cup Roots,
          kurt \in {NaN} \cup Quarters :
            moments = <<mean, sd, skew, kurt>>
    /\ stdout = <<>>
    /\ trace = <<>>
    /\ exc = "none"

CallWriting ==
    /\ pc = "harness"
    /\ stdout = <<>>
    /\ stdout' = writing(moments, col).out
    /\ UNCHANGED <<csv, emptyRaises, pc, df, orig, returns, files, moments, trace, exc>>

NextWriting == CallWriting

SpecWriting == InitWriting /\ [][NextWriting]_vars

-----------------------------------------------------------------------------
(* Properties *)

NullFree(t) ==
    \A i \in DOMAIN t.rows : \A c \in Range(t.columns) : t.rows[i].cells[c] # Null

HasDuplicate(t) ==
    \E i, j \in DOMAIN t.rows : i # j /\ t.rows[i].cells = t.rows[j].cells

\* C1: every table preprocessing returns has no null in any cell of its
\* columns and no two rows with equal cells, with or without a Year column.
C1_CleanedHasNoNullNoDuplicate ==
    \A k \in DOMAIN returns : NullFree(returns[k]) /\ ~HasDuplicate(returns[k])

\* A three-row input with a Year column, a null and a duplicated row, cleaned
\* to a single row.
C1_Witness ==
    /\ pc = "harness"
    /\ Len(returns) >= 1
    /\ ColYear \in Range(orig.columns)
    /\ Len(orig.rows) = 3
    /\ ~NullFree(set_index(orig, ColYear))
    /\ \E i, j \in DOMAIN orig.rows :
            /\ i # j
            /\ orig.rows[i].cells = orig.rows[j].cells
            /\ \A c \in Range(orig.columns) : orig.rows[i].cells[c] # Null
    /\ Len(returns[1].rows) = 1

\* The cells of row i of t outside the Year column.
NonYear(t, i) ==
    [c \in Range(t.columns) \ {ColYear} |-> t.rows[i].cells[c]]

\* Row i of t is the first of its group (the rows that agree with it outside
\* Year) and has no null outside Year.
C9_Survives(t, i) ==
    /\ \A j \in 1..(i - 1) : NonYear(t, j) # NonYear(t, i)
    /\ \A c \in Range(t.columns) \ {ColYear} : t.rows[i].cells[c] # Null

\* C9: with a Year column, the rows returned are, in input order and labelled
\* by their Year, exactly the input rows that are first of their group on the
\* non-Year columns and have no null in a non-Year column.
C9_YearExcludedFromDuplicates ==
    (pc = "harness" /\ returns # <<>> /\ ColYear \in Range(orig.columns)) =>
        LET out == returns[1]
            expected ==
                KeepRows([i \in DOMAIN orig.rows |->
                            [label |-> orig.rows[i].cells[ColYear],
                             cells |-> NonYear(orig, i)]],
                         {i \in DOMAIN orig.rows : C9_Survives(orig, i)})
        IN  /\ out.index = ColYear
            /\ out.rows = expected

\* Two null-free rows that differ in Year only, of which the second is gone,
\* while a row with a null Year is kept.
C9_Witness ==
    /\ pc = "harness"
    /\ returns # <<>>
    /\ ColYear \in Range(orig.columns)
    /\ Len(orig.rows) = 3
    /\ NonYear(orig, 1) = NonYear(orig, 2)
    /\ orig.rows[1].cells[ColYear] = <<1>>
    /\ orig.rows[2].cells[ColYear] = <<2>>
    /\ orig.rows[3].cells[ColYear] = Null
    /\ Len(returns[1].rows) = 2
    /\ returns[1].rows[1].label = <<1>>
    /\ returns[1].rows[2].label = Null

\* C10: preprocessing applied to a table it returned returns an equal table
\* (same index, columns, rows and order).
C10_PreprocessingIdempotent ==
    \A k \in DOMAIN returns : k > 1 => returns[k] = returns[k - 1]

\* A second pass over the output of a first pass that moved Year to the index
\* and removed rows.
C10_Witness ==
    /\ pc = "harness"
    /\ Len(returns) >= 2
    /\ returns[1].index = ColYear
    /\ Len(returns[1].rows) = 2
    /\ Len(orig.rows) = 3

\* C2: repeated calls of statistical_analysis on one table and column return
\* the same tuple, and the table is as it was before the first call.
C2_AnalysisRepeatable ==
    /\ \A i, j \in DOMAIN returns : returns[i] = returns[j]
    /\ returns # <<>> => df = orig

\* Two calls on a table with a null in the analysed column and a defined mean.
C2_Witness ==
    /\ pc = "harness"
    /\ Len(returns) >= 2
    /\ returns[2][1] # NaN
    /\ \E i \in DOMAIN df.rows : df.rows[i].cells[col] = Null

Charts == {"plot_relational_plot", "plot_statistical_plot", "plot_categorical_plot"}

SummaryPrinted ==
    \E i \in DOMAIN stdout : stdout[i][1] \in {"For the attribute", "The data is"}

\* The table preprocessing returns for the file data.csv.
Cleaned == preprocessing(read_csv(csv).ret).ret

\* C4: main calls preprocessing first, then the three charts, then
\* statistical_analysis, then writing; the charts and the analysis are given
\* the table preprocessing returned, and writing the moments of that table;
\* a run that ends without an exception has saved each of the three files
\* once; the summary is printed only when all three files are saved.
C4_MainOrder ==
    /\ \A i \in DOMAIN trace :
            /\ (trace[i].fn = "preprocessing") = (i = 1)
            /\ trace[i].fn \in Charts => (i \in 2..4 /\ trace[i].arg = Cleaned)
            /\ trace[i].fn = "statistical_analysis" => (i = 5 /\ trace[i].arg = Cleaned)
            /\ trace[i].fn = "writing" =>
                    (i = 6 /\ trace[i].arg = statistical_analysis(Cleaned, col).ret)
    /\ \A i, j \in DOMAIN trace : i # j => trace[i].fn # trace[j].fn
    /\ (moments # <<>> \/ \E f \in FileNames : files[f] > 0) =>
            \E i \in DOMAIN stdout : stdout[i][1] = "Correlation Matrix"
    /\ SummaryPrinted => \A f \in FileNames : files[f] = 1
    /\ pc = "done" =>
            /\ Len(trace) = 6
            /\ \A f \in FileNames : files[f] = 1
            /\ SummaryPrinted
            /\ exc = "none"

\* A completed run whose cleaning removed a row and left data.
C4_Witness ==
    /\ pc = "done"
    /\ Len(read_csv(csv).ret.rows) = 2
    /\ Len(df.rows) = 1
    /\ moments[1] # NaN

\* The exception the call recorded as e raises, "none" when it returns.
RaisedBy(e) ==
    CASE e.fn = "preprocessing" -> preprocessing(e.arg).exc
      [] e.fn = "plot_relational_plot" -> plot_relational_plot(e.arg).exc
      [] e.fn = "plot_statistical_plot" -> plot_statistical_plot(e.arg).exc
      [] e.fn = "plot_categorical_plot" -> plot_categorical_plot(e.arg).exc
      [] e.fn = "statistical_analysis" -> statistical_analysis(e.arg, col).exc
      [] OTHER -> "none"

FileOf(fn) ==
    CASE fn = "plot_relational_plot" -> RelationalFile
      [] fn = "plot_statistical_plot" -> StatisticalFile
      [] fn = "plot_categorical_plot" -> CategoricalFile

\* C5: an exception raised by a step leaves main: it is the exception main
\* ends with, the failing call is the last call made, no step follows, and no
\* summary is printed; a failed load leaves no call made and no file saved;
\* the files saved by the charts that returned before the failure stay.
C5_ExceptionsPropagate ==
    /\ (exc # "none") = (pc = "raised")
    /\ \A i \in DOMAIN trace :
            RaisedBy(trace[i]) # "none" =>
                /\ i = Len(trace)
                /\ pc = "raised"
                /\ exc = RaisedBy(trace[i])
    /\ (pc # "read_csv" /\ read_csv(csv).exc # "none") =>
            /\ pc = "raised"
            /\ exc = read_csv(csv).exc
            /\ trace = <<>>
            /\ \A f \in FileNames : files[f] = 0
    /\ pc = "raised" =>
            /\ ~ENABLED NextMain
            /\ ~SummaryPrinted
            /\ moments = <<>>
            /\ \A i \in DOMAIN trace :
                    trace[i].fn \in Charts =>
                        files[FileOf(trace[i].fn)] = IF i < Len(trace) THEN 1 ELSE 0

\* The categorical chart fails for a missing column after the two other
\* charts were saved.
C5_Witness ==
    /\ pc = "raised"
    /\ exc = "KeyError"
    /\ Len(trace) = 4
    /\ files[RelationalFile] = 1
    /\ files[StatisticalFile] = 1
    /\ files[CategoricalFile] = 0

\* The sign of a moment: 1, -1, or 0 (NaN has no sign and counts as neither).
SignOf(x) ==
    CASE x.k = "nan" -> 0
      [] x.k = "rat" -> Sign(x.num)
      [] x.k = "root" -> x.sgn

C8_Above(x, p, q) ==
    \/ x.k = "rat" /\ x.num * q > p * x.den
    \/ x.k = "root" /\ x.sgn = 1 /\ x.num * q * q > p * p * x.den

C8_Below(x, p, q) ==
    \/ x.k = "rat" /\ x.num * q < (0 - p) * x.den
    \/ x.k = "root" /\ x.sgn = -1 /\ x.num * q * q > p * p * x.den

\* C8: writing prints one of the three skewness phrases and one of the three
\* kurtosis phrases: right-skewed exactly when skewness > 0.5, left-skewed
\* exactly when skewness < -0.5, approximately symmetric otherwise (0.5, -0.5
\* and NaN included); leptokurtic exactly when excess kurtosis > 1,
\* platykurtic exactly when < -1, mesokurtic otherwise (1, -1 and NaN included).
C8_PhrasesByThreshold ==
    stdout # <<>> =>
        LET s == moments[3]
            k == moments[4]
        IN  /\ stdout[3][2] =
                    (CASE C8_Above(s, 1, 2) -> "right-skewed"
                       [] C8_Below(s, 1, 2) -> "left-skewed"
                       [] OTHER -> "approximately symmetric")
            /\ stdout[3][3] =
                    (CASE C8_Above(k, 1, 1) -> "leptokurtic (heavy-tailed)"
                       [] C8_Below(k, 1, 1) -> "platykurtic (light-tailed)"
                       [] OTHER -> "mesokurtic (normal-like)")
            /\ ~(C8_Above(s, 1, 2) /\ C8_Below(s, 1, 2))
            /\ ~(C8_Above(k, 1, 1) /\ C8_Below(k, 1, 1))
            /\ s \in {NaN, Rat(2, 4), Rat(-2, 4), Root(1, 1, 4), Root(-1, 1, 4)} =>
                    stdout[3][2] = "approximately symmetric"
            /\ k \in {NaN, Rat(4, 4), Rat(-4, 4)} =>
                    stdout[3][3] = "mesokurtic (normal-like)"

\* The boundary 0.5 with an undefined kurtosis.
C8_Witness ==
    /\ stdout # <<>>
    /\ moments[3] = Rat(2, 4)
    /\ moments[4] = NaN
    /\ stdout[3] = <<"The data is", "approximately symmetric", "mesokurtic (normal-like)">>

====
